---- MODULE Spec2Model ----
(***************************************************************************)
(* A model of the Convex backend: the in-memory room registry, the rooms   *)
(* and their participants (backend/app/models.py) and the Socket.IO event  *)
(* handlers that mutate them (backend/app/socket_handlers.py).             *)
(*                                                                         *)
(* The handlers are asyncio coroutines.  Code between two awaits runs      *)
(* atomically; at every await (sio.enter_room, sio.leave_room, sio.emit,   *)
(* asyncio.sleep) the event loop may run any other handler, of the same    *)
(* connection too.  A handler is therefore one action up to its first      *)
(* await and one step of its Resume action from each await to the next;    *)
(* pc holds the handlers that are suspended, each with the await it is at  *)
(* and its local variables.  A step that makes the last call of a handler, *)
(* after which the handler only prints, also ends the handler.             *)
(*                                                                         *)
(* An emit may raise.  What is raised ends the handler at that await,      *)
(* unless the code catches it.                                             *)
(***************************************************************************)
EXTENDS Integers, Sequences, FiniteSets, Bags, TLC

(***************************************************************************)
(* Bounds of the model.                                                    *)
(***************************************************************************)
MaxRooms == 3            \* Room objects alive at one time
MaxInFlight == 2         \* handlers suspended at one time
MaxStarts == 2           \* accepted timer:start events in one behaviour
MaxMinutes == 40         \* the wall clock stops advancing after this many minutes
FairMinutes == 20        \* SpecTimerFair: the wall clock stops advancing after this many minutes
FairStarts == 1          \* SpecTimerFair: accepted timer:start events in one behaviour
MaxScore == 1            \* no user:focused is handled in a room whose group score reached this
MaxPoints == 1           \* SpecScore: no tick is taken on a room whose group score reached this
MaxFineClock == 3        \* SpecFocus: the clock stops after this many clock units
MaxHeads == 5            \* SpecScore: participants of the room
MaxConfusion == 2        \* no confusion is recorded for a participant who reached this
MaxTicks == 2            \* ticks of the metrics loop in one behaviour

Sids == {"s1", "s2", "s3"}          \* connection ids handed out by the transport
Codes == {"R1", "R2"}               \* room codes clients send
Usernames == {"u"}                  \* display names clients send
PhaseInputs == {"focus", "break", "nap", "missing"}  \* data["phase"]; "missing": key absent

(***************************************************************************)
(* Representation of Python values.                                        *)
(***************************************************************************)
None == -1               \* None in a field that otherwise holds a number
NoSid == "None"          \* None in a field that otherwise holds a connection id
Empty == ""              \* the empty / missing string of a payload

\* time.time() is a float of seconds; the model's clock counts units of
\* 1/TimeRes ms, so that time.time() * 1000 has a fractional part that int() cuts.
TimeRes == 2
MinuteUnits == 60 * 1000 * TimeRes

\* Scores and rates are floats: IEEE 754 doubles, every operation rounded to
\* the nearest double, ties to the even significand.  A finite double is
\* (-1)^neg * m * 2^x with a significand m of at most Precision bits.  The
\* model holds it as the record of neg, m and x in which m is odd (or m = 0 and
\* x = 0), so that equal values are equal records; m is a natural number of any
\* size, held as the sequence of its digits in base Limb, the least significant
\* first, no zero at the top, 0 being <<>>.  The same records with an m of any
\* length are the dyadic rationals, in which sums and products are exact.
\* Exponent overflow, subnormals, infinities, NaN and -0.0 are not modelled: no
\* score or rate of the program comes near them.
\*
\* In the definitions below a bound variable ranging over a one-element set
\* holds the value of an operand, evaluated once.
Precision == 53          \* bits of the significand of a double
LimbBits == 15
Limb == 2 ^ LimbBits
GuardBits == 70          \* bits a quotient is computed to before it is rounded

Zeros(n) == [i \in 1..n |-> 0]

\* a without the zeros at its top.
RECURSIVE Trim(_)
Trim(a) ==
    CHOOSE r \in {IF u = <<>> \/ u[Len(u)] # 0 THEN u ELSE Trim(SubSeq(u, 1, Len(u) - 1)) :
                     u \in {a}} : TRUE

\* The natural number n < Limb^2.
NatOf(n) == IF n = 0 THEN <<>> ELSE IF n < Limb THEN <<n>> ELSE <<n % Limb, n \div Limb>>

\* a + b + c, for a carry c.
RECURSIVE AddN(_, _, _)
AddN(a, b, c) ==
    CHOOSE r \in {IF u = <<>> /\ v = <<>> THEN NatOf(c)
                  ELSE IF u = <<>> THEN <<(v[1] + c) % Limb>> \o AddN(<<>>, Tail(v), (v[1] + c) \div Limb)
                  ELSE IF v = <<>> THEN <<(u[1] + c) % Limb>> \o AddN(Tail(u), <<>>, (u[1] + c) \div Limb)
                  ELSE <<(u[1] + v[1] + c) % Limb>> \o
                       AddN(Tail(u), Tail(v), (u[1] + v[1] + c) \div Limb) :
                     u \in {a}, v \in {b}} : TRUE

\* The digits of a - b - c for a borrow c and a >= b + c, zeros at the top included.
RECURSIVE SubN(_, _, _)
SubN(a, b, c) ==
    CHOOSE r \in {IF u = <<>> THEN <<>>
                  ELSE IF v = <<>>
                  THEN <<(u[1] - c + Limb) % Limb>> \o
                       SubN(Tail(u), <<>>, IF u[1] - c < 0 THEN 1 ELSE 0)
                  ELSE <<(u[1] - v[1] - c + Limb) % Limb>> \o
                       SubN(Tail(u), Tail(v), IF u[1] - v[1] - c < 0 THEN 1 ELSE 0) :
                     u \in {a}, v \in {b}} : TRUE

\* The digits of a * k + c for a digit k and a carry c, zeros at the top included.
RECURSIVE MulDigit(_, _, _)
MulDigit(a, k, c) ==
    CHOOSE r \in {IF u = <<>> THEN NatOf(c)
                  ELSE <<(u[1] * k + c) % Limb>> \o MulDigit(Tail(u), k, (u[1] * k + c) \div Limb) :
                     u \in {a}} : TRUE

\* a * b.
RECURSIVE MulN(_, _)
MulN(a, b) ==
    CHOOSE r \in {IF u = <<>> \/ v = <<>> THEN <<>>
                  ELSE AddN(Trim(MulDigit(u, v[1], 0)), <<0>> \o MulN(u, Tail(v)), 0) :
                     u \in {a}, v \in {b}} : TRUE

\* a divided by a digit k > 0: the digits of the quotient, zeros at the top
\* included, and the remainder.
RECURSIVE DivDigit(_, _)
DivDigit(a, k) ==
    CHOOSE r \in {IF u = <<>> THEN [q |-> <<>>, r |-> 0]
                  ELSE CHOOSE s \in {[q |-> <<(hi.r * Limb + u[1]) \div k>> \o hi.q,
                                      r |-> (hi.r * Limb + u[1]) % k] :
                                        hi \in {DivDigit(Tail(u), k)}} : TRUE :
                     u \in {a}} : TRUE

\* a < b.
LessN(a, b) ==
    \E u \in {a}, v \in {b} :
        IF Len(u) # Len(v)
        THEN Len(u) < Len(v)
        ELSE \E i \in 1..Len(u) : u[i] < v[i] /\ \A j \in (i + 1)..Len(u) : u[j] = v[j]

\* The number of bits of a digit, and of a.
RECURSIVE Bits(_)
Bits(n) == IF n = 0 THEN 0 ELSE 1 + Bits(n \div 2)
BitLen(a) ==
    CHOOSE r \in {IF u = <<>> THEN 0 ELSE LimbBits * (Len(u) - 1) + Bits(u[Len(u)]) :
                     u \in {a}} : TRUE

\* a * 2^n, and a divided by 2^n, the remainder dropped.
Shl(a, n) ==
    CHOOSE r \in {IF u = <<>> \/ n = 0 THEN u
                  ELSE IF n % LimbBits = 0 THEN Zeros(n \div LimbBits) \o u
                  ELSE Zeros(n \div LimbBits) \o Trim(MulDigit(u, 2 ^ (n % LimbBits), 0)) :
                     u \in {a}} : TRUE
Shr(a, n) ==
    CHOOSE r \in {IF n = 0 THEN u
                  ELSE IF n \div LimbBits >= Len(u) THEN <<>>
                  ELSE IF n % LimbBits = 0 THEN SubSeq(u, n \div LimbBits + 1, Len(u))
                  ELSE Trim(DivDigit(SubSeq(u, n \div LimbBits + 1, Len(u)),
                                     2 ^ (n % LimbBits)).q) :
                     u \in {a}} : TRUE

\* Bit n of a, counted from 0 at the low end, and whether a bit below it is set.
BitAt(a, n) ==
    \E u \in {a} : n \div LimbBits < Len(u) /\ (u[n \div LimbBits + 1] \div 2 ^ (n % LimbBits)) % 2 = 1
AnyBelow(a, n) ==
    \E u \in {a} :
        \/ \E i \in 1..(n \div LimbBits) : i <= Len(u) /\ u[i] # 0
        \/ n \div LimbBits < Len(u) /\ u[n \div LimbBits + 1] % 2 ^ (n % LimbBits) # 0

\* The number of zero bits at the low end of a digit n > 0, and of a > 0.
RECURSIVE LowZeros(_)
LowZeros(n) == IF n % 2 = 1 THEN 0 ELSE 1 + LowZeros(n \div 2)
RECURSIVE LowZerosN(_)
LowZerosN(a) ==
    CHOOSE r \in {IF u[1] # 0 THEN LowZeros(u[1]) ELSE LimbBits + LowZerosN(Tail(u)) :
                     u \in {a}} : TRUE

\* The dyadic rational (-1)^neg * m * 2^x.
Num(neg, m, x) ==
    CHOOSE r \in {IF u = <<>>
                  THEN [neg |-> FALSE, m |-> <<>>, x |-> 0]
                  ELSE IF u[1] % 2 = 1
                  THEN [neg |-> neg, m |-> u, x |-> x]
                  ELSE CHOOSE s \in {[neg |-> neg, m |-> Shr(u, z), x |-> x + z] :
                                        z \in {LowZerosN(u)}} : TRUE :
                     u \in {m}} : TRUE

Zero == [neg |-> FALSE, m |-> <<>>, x |-> 0]
One == [neg |-> FALSE, m |-> <<1>>, x |-> 0]          \* 1.0
Float(n) ==                                           \* float(n) of a whole number n
    CHOOSE r \in {Num(k < 0, NatOf(IF k < 0 THEN -k ELSE k), 0) : k \in {n}} : TRUE
Negated(a) == CHOOSE r \in {[p EXCEPT !.neg = (p.m # <<>> /\ ~p.neg)] : p \in {a}} : TRUE
Abs(a) == [a EXCEPT !.neg = FALSE]

\* The exact sum of p and q, at the lower x of their exponents.
SumAt(p, q, x) ==
    CHOOSE r \in {IF p.neg = q.neg THEN Num(p.neg, AddN(u, v, 0), x)
                  ELSE IF LessN(u, v) THEN Num(q.neg, Trim(SubN(v, u, 0)), x)
                  ELSE Num(p.neg, Trim(SubN(u, v, 0)), x) :
                     u \in {Shl(p.m, p.x - x)}, v \in {Shl(q.m, q.x - x)}} : TRUE

\* The exact sum, difference and product of two dyadic rationals.
Sum(a, b) ==
    CHOOSE r \in {IF p.m = <<>> THEN q
                  ELSE IF q.m = <<>> THEN p
                  ELSE SumAt(p, q, IF p.x < q.x THEN p.x ELSE q.x) :
                     p \in {a}, q \in {b}} : TRUE
Difference(a, b) == Sum(a, Negated(b))
Product(a, b) ==
    CHOOSE r \in {Num(p.neg # q.neg, MulN(p.m, q.m), p.x + q.x) : p \in {a}, q \in {b}} : TRUE

\* |p| < |q|: by the places of their top bits, or else digit by digit.
LessAbs(p, q) ==
    IF p.m = <<>> \/ q.m = <<>>
    THEN q.m # <<>>
    ELSE \E s \in {BitLen(p.m) + p.x}, t \in {BitLen(q.m) + q.x} :
            IF s # t THEN s < t
            ELSE IF p.x < q.x THEN LessN(p.m, Shl(q.m, q.x - p.x))
            ELSE LessN(Shl(p.m, p.x - q.x), q.m)
Less(a, b) ==                                         \* a < b
    \E p \in {a}, q \in {b} :
        IF p.neg # q.neg THEN p.neg
        ELSE IF p.neg THEN LessAbs(q, p) ELSE LessAbs(p, q)
AtMost(a, b) == ~Less(b, a)                           \* a <= b

\* The double nearest to (-1)^neg * (n + f) * 2^x, where 0 <= f < 1, f > 0 iff
\* inexact, and n has Precision + 2 bits or more when inexact.  Of an n with d
\* bits more than Precision the top Precision bits are rounded up if the d low
\* bits (and f) are more than half a unit of them, or just half of it and the
\* top bits are odd: ties go to the even significand.
Round(neg, n, x, inexact) ==
    CHOOSE r \in {IF d <= 0 THEN Num(neg, u, x)
                  ELSE CHOOSE s \in {Num(neg,
                                         IF BitAt(u, d - 1)
                                            /\ (inexact \/ AnyBelow(u, d - 1) \/ q[1] % 2 = 1)
                                         THEN AddN(q, <<1>>, 0) ELSE q,
                                         x + d) :
                                        q \in {Shr(u, d)}} : TRUE :
                     u \in {n}, d \in {BitLen(n) - Precision}} : TRUE

\* The arithmetic of floats: the exact result, rounded.
Rounded(a) == CHOOSE r \in {Round(p.neg, p.m, p.x, FALSE) : p \in {a}} : TRUE
Plus(a, b) == Rounded(Sum(a, b))                      \* a + b
Minus(a, b) == Rounded(Difference(a, b))              \* a - b
Times(a, b) == Rounded(Product(a, b))                 \* a * b
Over(a, k) ==                                         \* a / k for a head count k
    CHOOSE r \in {CHOOSE s \in {Round(p.neg, Trim(d.q), p.x - GuardBits, d.r # 0) :
                                   d \in {DivDigit(Shl(p.m, GuardBits), k)}} : TRUE :
                     p \in {a}} : TRUE

FOCUS_DURATION == 25
BREAK_DURATION == 5
METRICS_BROADCAST_INTERVAL == 5
furrow_threshold == 45   \* 0.45, in hundredths

VARIABLES
    now,        \* time.time(), in clock units
    rooms,      \* room_manager.rooms: a dict, as the sequence of its (code, Room object id) items
    heap,       \* the Room objects alive, by id; NoRoom at an id not in use
    sessions,   \* sessions: connection id -> session, NoSession if absent
    closed,     \* the connections the transport has reported disconnected
    pc,         \* the suspended handlers: a bag of their continuations
    tasks,      \* timer_end_callback tasks created and not yet fired
    started,    \* number of timer:start events accepted
    latest,     \* per room code: the ordinal of its most recent accepted timer:start
    loop,       \* metrics_broadcast_loop: the rooms of its snapshot from the one in hand on, and its await
    ticks,      \* metrics_broadcast_loop: number of ticks (snapshots) it has begun
    sent        \* the outbound events emitted by the last step

vars == <<now, rooms, heap, sessions, closed, pc, tasks, started, latest, loop, ticks, sent>>

(***************************************************************************)
(* Participant (models.py).                                                *)
(***************************************************************************)
NowMs(t) == t                       \* time.time() * 1000, kept in clock units
IntMs(d) == d \div TimeRes          \* int(<float ms>) of a non-negative difference

Participant(socket_id, username, t) ==
    [socket_id |-> socket_id, username |-> username, is_distracted |-> FALSE,
     focused_since |-> NowMs(t), distracted_since |-> None,
     total_focused_ms |-> 0, total_distracted_ms |-> 0,
     score |-> Zero, is_confused |-> FALSE, confusion_events |-> 0]

\* mark_distracted opening a new distracted interval on every call.
mark_distracted_reopens(p, t) ==
    LET p1 == IF p.focused_since # None
              THEN [p EXCEPT !.total_focused_ms = @ + IntMs(NowMs(t) - p.focused_since),
                             !.focused_since = None]
              ELSE p
    IN [p1 EXCEPT !.distracted_since = NowMs(t), !.is_distracted = TRUE]

mark_distracted(p, t) ==
    LET p1 == IF p.focused_since # None
              THEN [p EXCEPT !.total_focused_ms = @ + IntMs(NowMs(t) - p.focused_since),
                             !.focused_since = None]
              ELSE p
        p2 == IF p1.distracted_since = None
              THEN [p1 EXCEPT !.distracted_since = NowMs(t)]
              ELSE p1
    IN [p2 EXCEPT !.is_distracted = TRUE]

\* mark_focused leaving the distracted interval open.
mark_focused_keeps_interval(p, t) ==
    LET p1 == IF p.distracted_since # None
              THEN [p EXCEPT !.total_distracted_ms = @ + IntMs(NowMs(t) - p.distracted_since)]
              ELSE p
        p2 == IF p1.focused_since = None
              THEN [p1 EXCEPT !.focused_since = NowMs(t)]
              ELSE p1
    IN [p2 EXCEPT !.is_distracted = FALSE]

mark_focused(p, t) ==
    LET p1 == IF p.distracted_since # None
              THEN [p EXCEPT !.total_distracted_ms = @ + IntMs(NowMs(t) - p.distracted_since),
                             !.distracted_since = None]
              ELSE p
        p2 == IF p1.focused_since = None
              THEN [p1 EXCEPT !.focused_since = NowMs(t)]
              ELSE p1
    IN [p2 EXCEPT !.is_distracted = FALSE]

record_confusion(p) ==
    [p EXCEPT !.is_confused = TRUE, !.confusion_events = @ + 1]

\* The participant as finalize_on_leave leaves it (both intervals closed).
finalize_on_leave(p, t) ==
    LET p1 == IF p.focused_since # None
              THEN [p EXCEPT !.total_focused_ms = @ + IntMs(NowMs(t) - p.focused_since),
                             !.focused_since = None]
              ELSE p
    IN IF p1.distracted_since # None
       THEN [p1 EXCEPT !.total_distracted_ms = @ + IntMs(NowMs(t) - p1.distracted_since),
                       !.distracted_since = None]
       ELSE p1

\* The sessionDurationMs of the snapshot finalize_on_leave returns.
session_ms(p, t) ==
    finalize_on_leave(p, t).total_focused_ms + finalize_on_leave(p, t).total_distracted_ms

(***************************************************************************)
(* Room (models.py).  participants is a dict: a sequence in insertion      *)
(* order, at most one entry per socket_id.                                 *)
(***************************************************************************)
Room(code) ==
    [code |-> code, participants |-> <<>>, timer_end_time |-> None,
     timer_phase |-> "focus", host |-> NoSid, group_score |-> Zero]

NoRoom == [code |-> Empty, participants |-> <<>>, timer_end_time |-> None,
           timer_phase |-> "focus", host |-> NoSid, group_score |-> Zero]

Keys(room) == {room.participants[i].socket_id : i \in DOMAIN room.participants}

IndexOf(room, sid) ==
    CHOOSE i \in DOMAIN room.participants : room.participants[i].socket_id = sid

Get(room, sid) == room.participants[IndexOf(room, sid)]

Without(seq, i) == [j \in 1..(Len(seq) - 1) |-> IF j < i THEN seq[j] ELSE seq[j + 1]]

add_participant(room, sid, username, t) ==
    LET p == Participant(sid, username, t)
        r1 == IF sid \in Keys(room)
              THEN [room EXCEPT !.participants[IndexOf(room, sid)] = p]
              ELSE [room EXCEPT !.participants = Append(@, p)]
    IN IF r1.host = NoSid THEN [r1 EXCEPT !.host = sid] ELSE r1

\* remove_participant without the reassignment of the host.
remove_participant_keeps_host(room, sid) ==
    IF sid \notin Keys(room)
    THEN room
    ELSE [room EXCEPT !.participants = Without(@, IndexOf(room, sid))]

\* The room after remove_participant; the call returns None exactly when
\* sid is not a key of participants, and the room is then unchanged.
remove_participant(room, sid) ==
    IF sid \notin Keys(room)
    THEN room
    ELSE LET r1 == [room EXCEPT !.participants = Without(@, IndexOf(room, sid))]
         IN IF room.host = sid
            THEN [r1 EXCEPT !.host = IF r1.participants = <<>> THEN NoSid
                                     ELSE r1.participants[1].socket_id]
            ELSE r1

is_empty(room) == Len(room.participants) = 0

current_num_distracted(room) ==
    Cardinality({i \in DOMAIN room.participants : room.participants[i].is_distracted})

Min(a, b) == IF Less(a, b) THEN a ELSE b              \* min(a, b)
Max(a, b) == IF Less(b, a) THEN a ELSE b              \* max(a, b)

base_dps == One                                       \* 1.0
penalty_per_distracted == Over(One, 4)                \* 0.25
PenaltyCap == Over(Float(95), 100)                    \* 0.95: the double nearest to 95/100

\* compute_group_dps without the 0.95 cap on the penalty.
compute_group_dps_uncapped(room) ==
    LET num_distracted == current_num_distracted(room)
        penalty == Times(penalty_per_distracted, Float(num_distracted))
        effective == Max(Zero, Minus(One, penalty))
    IN Times(base_dps, effective)

compute_group_dps(room) ==
    LET num_distracted == current_num_distracted(room)
        penalty == Times(penalty_per_distracted, Float(num_distracted))
        effective == Max(Zero, Minus(One, Min(penalty, PenaltyCap)))
    IN Times(base_dps, effective)

\* The participants of the room that are not distracted, by their place.
focused_participants(room) ==
    {i \in DOMAIN room.participants : ~room.participants[i].is_distracted}

\* The end of tick_and_distribute_score: pts shared among the k of the
\* participants in the set focused, and added to the group score.
Distribute(room, focused, pts, k) ==
    CHOOSE r \in {[room EXCEPT
                     !.participants = [i \in DOMAIN room.participants |->
                         IF i \in focused
                         THEN [room.participants[i] EXCEPT !.score = Plus(@, share)]
                         ELSE room.participants[i]],
                     !.group_score = Plus(@, pts)] :
                       share \in {Over(pts, k)}} : TRUE

\* tick_and_distribute_score banking the points when nobody is focused.
tick_and_distribute_score_banks(room, seconds) ==
    CHOOSE r \in {IF focused = {}
                  THEN [room EXCEPT !.group_score = Plus(@, pts)]
                  ELSE Distribute(room, focused, pts, Cardinality(focused)) :
                     pts \in {Times(compute_group_dps(room), Float(seconds))},
                     focused \in {focused_participants(room)}} : TRUE

\* tick_and_distribute_score splitting the points over all participants.
tick_and_distribute_score_splits_over_all(room, seconds) ==
    CHOOSE r \in {IF focused = {}
                  THEN room
                  ELSE Distribute(room, focused, pts, Len(room.participants)) :
                     pts \in {Times(compute_group_dps(room), Float(seconds))},
                     focused \in {focused_participants(room)}} : TRUE

\* pts = dps * seconds and focused are computed once each.
tick_and_distribute_score(room, seconds) ==
    CHOOSE r \in {IF focused = {}
                  THEN room
                  ELSE Distribute(room, focused, pts, Cardinality(focused)) :
                     pts \in {Times(compute_group_dps(room), Float(seconds))},
                     focused \in {focused_participants(room)}} : TRUE

(***************************************************************************)
(* RoomManager (models.py).                                                *)
(***************************************************************************)
RoomIds == 1..MaxRooms

HasRoom(reg, code) == \E i \in DOMAIN reg : reg[i].code = code

\* The id of the Room object the registry holds under code, 0 for None.
get_room(reg, code) ==
    IF HasRoom(reg, code)
    THEN reg[CHOOSE i \in DOMAIN reg : reg[i].code = code].rid
    ELSE 0

\* The registry after rooms.pop(code, None).
delete_room(reg, code) ==
    IF HasRoom(reg, code)
    THEN Without(reg, CHOOSE i \in DOMAIN reg : reg[i].code = code)
    ELSE reg

\* The registry after get_or_create_room(code), when rid is the id of the
\* Room object it constructs if code is absent.
get_or_create_room(reg, code, rid) ==
    IF HasRoom(reg, code) THEN reg ELSE Append(reg, [code |-> code, rid |-> rid])

\* Room objects live as long as something refers to them: the registry, a
\* suspended handler or the snapshot of the metrics loop.  The heap with the
\* objects nothing refers to any more dropped.
Referenced(rid, reg, pcs, snapshot) ==
    \/ \E i \in DOMAIN reg : reg[i].rid = rid
    \/ \E k \in BagToSet(pcs) : k.rid = rid
    \/ \E i \in DOMAIN snapshot : snapshot[i] = rid

Reclaim(h, reg, pcs, snapshot) ==
    [rid \in RoomIds |-> IF Referenced(rid, reg, pcs, snapshot) THEN h[rid] ELSE NoRoom]

FreeIds == {rid \in RoomIds : heap[rid] = NoRoom}
NewId == CHOOSE rid \in FreeIds : \A other \in FreeIds : rid <= other

(***************************************************************************)
(* State of the handlers (socket_handlers.py).                             *)
(***************************************************************************)
NoSession == [room_code |-> Empty, username |-> Empty]

NoFrame == [is_dict |-> FALSE, items |-> <<>>]

\* The continuation of a suspended handler: the handler (op), the connection
\* whose event it handles, the await it is suspended at (named by the call
\* awaited) and its local variables: the Room object it looked up (rid, 0 for
\* None), room_code, end_time, the delay of the completion, the ordinal of the
\* timer:start, the frame.
Handler(op, sid, at, rid, code) ==
    [op |-> op, sid |-> sid, at |-> at, rid |-> rid, code |-> code,
     end_time |-> None, delay |-> 0, id |-> 0, data |-> NoFrame]

Suspend(k) == pc (+) SetToBag({k})                 \* a handler reaches its first await
Finish(k) == pc (-) SetToBag({k})                  \* a suspended handler ends
Move(k, at) == Finish(k) (+) SetToBag({[k EXCEPT !.at = at]})   \* ... reaches its next await

\* After the emit a suspended handler makes: at its next await if the emit
\* went out, ended if it raised.
Emitted(k, at, ok) == IF ok THEN Move(k, at) ELSE Finish(k)

Ev(name, to) == [ev |-> name, to |-> to]

\* What one call of sio.emit puts out: nothing if it raises.
Emit(name, to, ok) == IF ok THEN {Ev(name, to)} ELSE {}

Sleeping == [snapshot |-> <<>>, at |-> "sleep"]

Init ==
    /\ now = 0
    /\ rooms = <<>>
    /\ heap = [r \in RoomIds |-> NoRoom]
    /\ sessions = [s \in Sids |-> NoSession]
    /\ closed = {}
    /\ pc = EmptyBag
    /\ tasks = {}
    /\ started = 0
    /\ latest = [c \in Codes |-> 0]
    /\ loop = Sleeping
    /\ ticks = 0
    /\ sent = {}

\* A connection can deliver an event: it is open.  The event loop starts the
\* handler whatever else is suspended, handlers of the same connection too.
Ready(sid) == sid \notin closed

\* The model holds MaxInFlight suspended handlers at most: a handler that would
\* suspend starts only while there is room for its continuation.
Free == BagCardinality(pc) < MaxInFlight

(***************************************************************************)
(* room:join, room:leave, disconnect.                                      *)
(***************************************************************************)
\* handle_room_join up to its first await, sio.enter_room: everything it
\* changes.
handle_room_join(sid, room_code, username) ==
    /\ Ready(sid)
    /\ IF room_code = Empty \/ username = Empty
       THEN UNCHANGED <<rooms, heap, sessions, pc>>
       ELSE LET fresh == ~HasRoom(rooms, room_code)
                rid == IF fresh THEN NewId ELSE get_room(rooms, room_code)
                room == IF fresh THEN Room(room_code) ELSE heap[rid]
            IN /\ Free
               /\ fresh => FreeIds # {}
               /\ rooms' = get_or_create_room(rooms, room_code, rid)
               /\ heap' = [heap EXCEPT ![rid] = add_participant(room, sid, username, now)]
               /\ sessions' = [sessions EXCEPT ![sid] =
                                  [room_code |-> room_code, username |-> username]]
               /\ pc' = Suspend(Handler("join", sid, "enter_room", rid, room_code))
    /\ sent' = {}
    /\ UNCHANGED <<now, closed, tasks, started, latest, loop, ticks>>

\* handle_room_join from one await to the next: after sio.enter_room the
\* room:state emit to the connection, after that the user:joined emit to the room.
RoomJoinResume(k, ok) ==
    /\ BagIn(k, pc)
    /\ k.op = "join"
    /\ IF k.at = "enter_room"
       THEN /\ sent' = Emit("room:state", k.sid, ok)
            /\ pc' = Emitted(k, "room:state", ok)
       ELSE /\ sent' = Emit("user:joined", k.code, ok)
            /\ pc' = Finish(k)
    /\ heap' = Reclaim(heap, rooms, pc', loop.snapshot)
    /\ UNCHANGED <<now, rooms, sessions, closed, tasks, started, latest, loop, ticks>>

\* How the user:metrics emit to the leaving connection ends: it goes out; it
\* raises and the emit to the room in the except clause goes out; both raise.
MetricsOutcomes == {"delivered", "fallback", "raised"}

\* handle_leave_room up to its first await (the user:metrics emit): the new
\* heap, pc and sent.  With no room under the code, or sid not in it, it returns.
LeaveBegin(sid, room_code, outcome) ==
    LET rid == get_room(rooms, room_code)
    IN IF rid = 0 \/ sid \notin Keys(heap[rid])
       THEN /\ sent' = {}
            /\ UNCHANGED <<heap, pc>>
       ELSE /\ outcome # "raised" => Free
            /\ heap' = [heap EXCEPT ![rid] = remove_participant(heap[rid], sid)]
            /\ pc' = IF outcome = "raised"
                     THEN pc
                     ELSE Suspend(Handler("leave", sid, "user:metrics", rid, room_code))
            /\ sent' = CASE outcome = "delivered" -> {Ev("user:metrics", sid)}
                         [] outcome = "fallback" -> {Ev("user:metrics", room_code)}
                         [] OTHER -> {}

handle_room_leave(sid, room_code, outcome) ==
    /\ Ready(sid)
    /\ IF room_code = Empty
       THEN sent' = {} /\ UNCHANGED <<heap, pc>>
       ELSE LeaveBegin(sid, room_code, outcome)
    /\ UNCHANGED <<now, rooms, sessions, closed, tasks, started, latest, loop, ticks>>

disconnect(sid, outcome) ==
    /\ Ready(sid)
    /\ closed' = closed \cup {sid}
    /\ sessions' = [sessions EXCEPT ![sid] = NoSession]
    /\ IF sessions[sid] # NoSession
       THEN LeaveBegin(sid, sessions[sid].room_code, outcome)
       ELSE sent' = {} /\ UNCHANGED <<heap, pc>>
    /\ UNCHANGED <<now, rooms, tasks, started, latest, loop, ticks>>

\* handle_leave_room from one await to the next: sio.leave_room, the user:left
\* emit, the room:state emit, and after it the test of is_empty on the room it
\* looked up before its first await; delete_room goes by the code.
LeaveResume(k, ok) ==
    /\ BagIn(k, pc)
    /\ k.op = "leave"
    /\ CASE k.at = "user:metrics" ->
              /\ sent' = {}
              /\ pc' = Move(k, "leave_room")
              /\ rooms' = rooms
         [] k.at = "leave_room" ->
              /\ sent' = Emit("user:left", k.code, ok)
              /\ pc' = Emitted(k, "user:left", ok)
              /\ rooms' = rooms
         [] k.at = "user:left" ->
              /\ sent' = Emit("room:state", k.code, ok)
              /\ pc' = Emitted(k, "room:state", ok)
              /\ rooms' = rooms
         [] OTHER ->
              /\ sent' = {}
              /\ pc' = Finish(k)
              /\ rooms' = IF is_empty(heap[k.rid]) THEN delete_room(rooms, k.code) ELSE rooms
    /\ heap' = Reclaim(heap, rooms', pc', loop.snapshot)
    /\ UNCHANGED <<now, sessions, closed, tasks, started, latest, loop, ticks>>

(***************************************************************************)
(* timer:start, timer:stop and the deferred completion.                    *)
(***************************************************************************)
\* The connection has a session whose room is in the registry.
Resolves(sid) ==
    sessions[sid] # NoSession /\ get_room(rooms, sessions[sid].room_code) # 0

RoomOf(sid) == get_room(rooms, sessions[sid].room_code)

IsHost(sid) == Resolves(sid) /\ heap[RoomOf(sid)].host = sid

\* The check without its comparison of room.host with sid.
MayControlTimer_anyone(sid) == Resolves(sid)

\* The check of handle_timer_start and handle_timer_stop that lets the event act.
MayControlTimer(sid) == Resolves(sid) /\ heap[RoomOf(sid)].host = sid

\* handle_timer_start up to its await, the timer:started emit.
handle_timer_start(sid, data_phase, ok) ==
    /\ Ready(sid)
    /\ IF ~MayControlTimer(sid)
       THEN /\ sent' = {}
            /\ UNCHANGED <<heap, pc, started, latest>>
       ELSE LET room_code == sessions[sid].room_code
                phase == IF data_phase = "missing" THEN "focus" ELSE data_phase
                duration_mins == IF phase = "focus" THEN FOCUS_DURATION ELSE BREAK_DURATION
                end_time == NowMs(now) + duration_mins * MinuteUnits
                k == [Handler("timer_start", sid, "timer:started", RoomOf(sid), room_code)
                         EXCEPT !.end_time = end_time,
                                !.delay = duration_mins * MinuteUnits,
                                !.id = started + 1]
            IN /\ started < MaxStarts
               /\ ok => Free
               /\ heap' = [heap EXCEPT ![RoomOf(sid)] =
                              [@ EXCEPT !.timer_end_time = end_time, !.timer_phase = phase]]
               /\ started' = started + 1
               /\ latest' = [latest EXCEPT ![room_code] = started + 1]
               /\ pc' = IF ok THEN Suspend(k) ELSE pc
               /\ sent' = Emit("timer:started", room_code, ok)
    /\ UNCHANGED <<now, rooms, sessions, closed, tasks, loop, ticks>>

\* handle_timer_start after the timer:started emit: asyncio.create_task.
TimerStartResume(k) ==
    /\ BagIn(k, pc)
    /\ k.op = "timer_start"
    /\ tasks' = tasks \cup {[id |-> k.id, room_code |-> k.code,
                             expected_end_time |-> k.end_time,
                             due |-> now + k.delay]}
    /\ pc' = Finish(k)
    /\ heap' = Reclaim(heap, rooms, pc', loop.snapshot)
    /\ sent' = {}
    /\ UNCHANGED <<now, rooms, sessions, closed, started, latest, loop, ticks>>

\* The test with "the room exists" in place of the comparison of the stamps.
StampMatches_room_only(task) == get_room(rooms, task.room_code) # 0

\* The test of timer_end_callback after its sleep.
StampMatches(task) ==
    /\ get_room(rooms, task.room_code) # 0
    /\ heap[get_room(rooms, task.room_code)].timer_end_time = task.expected_end_time

\* timer_end_callback after its sleep, to its end.
timer_end_callback(task, ok) ==
    /\ task \in tasks
    /\ now >= task.due
    /\ tasks' = tasks \ {task}
    /\ IF StampMatches(task)
       THEN /\ heap' = [heap EXCEPT ![get_room(rooms, task.room_code)].timer_end_time = None]
            /\ sent' = Emit("timer:ended", task.room_code, ok)
       ELSE /\ sent' = {}
            /\ UNCHANGED heap
    /\ UNCHANGED <<now, rooms, sessions, closed, pc, started, latest, loop, ticks>>

handle_timer_stop(sid, ok) ==
    /\ Ready(sid)
    /\ IF ~MayControlTimer(sid)
       THEN /\ sent' = {}
            /\ UNCHANGED heap
       ELSE /\ heap' = [heap EXCEPT ![RoomOf(sid)].timer_end_time = None]
            /\ sent' = Emit("timer:stopped", sessions[sid].room_code, ok)
    /\ UNCHANGED <<now, rooms, sessions, closed, pc, tasks, started, latest, loop, ticks>>

(***************************************************************************)
(* user:distracted, user:focused.                                          *)
(***************************************************************************)
\* The connection has a session, its room is in the registry and holds it.
Present(sid) == Resolves(sid) /\ sid \in Keys(heap[RoomOf(sid)])

SetParticipant(room, sid, p) == [room EXCEPT !.participants[IndexOf(room, sid)] = p]

ScoreRoom(rid) == Less(heap[rid].group_score, Float(MaxScore))

\* handle_user_distracted up to its first await, the user:status_changed emit.
handle_user_distracted(sid, ok) ==
    /\ Ready(sid)
    /\ IF ~Present(sid)
       THEN /\ sent' = {}
            /\ UNCHANGED <<heap, pc>>
       ELSE LET rid == RoomOf(sid)
                room_code == sessions[sid].room_code
            IN /\ ok => Free
               /\ heap' = [heap EXCEPT ![rid] =
                              SetParticipant(@, sid, mark_distracted(Get(@, sid), now))]
               /\ pc' = IF ok
                        THEN Suspend(Handler("distracted", sid, "user:status_changed",
                                             rid, room_code))
                        ELSE pc
               /\ sent' = Emit("user:status_changed", room_code, ok)
    /\ UNCHANGED <<now, rooms, sessions, closed, tasks, started, latest, loop, ticks>>

\* handle_user_distracted from one await to the next: the group:dps_updated
\* emit; tick_and_distribute_score(seconds=0) and the group:score_updated emit;
\* the room:state emit.
DistractedResume(k, ok) ==
    /\ BagIn(k, pc)
    /\ k.op = "distracted"
    /\ CASE k.at = "user:status_changed" ->
              /\ sent' = Emit("group:dps_updated", k.code, ok)
              /\ pc' = Emitted(k, "group:dps_updated", ok)
              /\ heap' = Reclaim(heap, rooms, pc', loop.snapshot)
         [] k.at = "group:dps_updated" ->
              /\ sent' = Emit("group:score_updated", k.code, ok)
              /\ pc' = Emitted(k, "group:score_updated", ok)
              /\ heap' = Reclaim([heap EXCEPT ![k.rid] = tick_and_distribute_score(@, 0)],
                                 rooms, pc', loop.snapshot)
         [] OTHER ->
              /\ sent' = Emit("room:state", k.code, ok)
              /\ pc' = Finish(k)
              /\ heap' = Reclaim(heap, rooms, pc', loop.snapshot)
    /\ UNCHANGED <<now, rooms, sessions, closed, tasks, started, latest, loop, ticks>>

\* handle_user_focused up to its first await, the user:status_changed emit.
handle_user_focused(sid, ok) ==
    /\ Ready(sid)
    /\ IF ~Present(sid)
       THEN /\ sent' = {}
            /\ UNCHANGED <<heap, pc>>
       ELSE LET rid == RoomOf(sid)
                room_code == sessions[sid].room_code
            IN /\ ScoreRoom(rid)
               /\ ok => Free
               /\ heap' = [heap EXCEPT ![rid] =
                              SetParticipant(@, sid, mark_focused(Get(@, sid), now))]
               /\ pc' = IF ok
                        THEN Suspend(Handler("focused", sid, "user:status_changed",
                                             rid, room_code))
                        ELSE pc
               /\ sent' = Emit("user:status_changed", room_code, ok)
    /\ UNCHANGED <<now, rooms, sessions, closed, tasks, started, latest, loop, ticks>>

\* handle_user_focused from one await to the next:
\* tick_and_distribute_score(seconds=1.0) and the group:dps_updated emit; the
\* group:score_updated emit; the room:state emit.
FocusedResume(k, ok) ==
    /\ BagIn(k, pc)
    /\ k.op = "focused"
    /\ CASE k.at = "user:status_changed" ->
              /\ sent' = Emit("group:dps_updated", k.code, ok)
              /\ pc' = Emitted(k, "group:dps_updated", ok)
              /\ heap' = Reclaim([heap EXCEPT ![k.rid] = tick_and_distribute_score(@, 1)],
                                 rooms, pc', loop.snapshot)
         [] k.at = "group:dps_updated" ->
              /\ sent' = Emit("group:score_updated", k.code, ok)
              /\ pc' = Emitted(k, "group:score_updated", ok)
              /\ heap' = Reclaim(heap, rooms, pc', loop.snapshot)
         [] OTHER ->
              /\ sent' = Emit("room:state", k.code, ok)
              /\ pc' = Finish(k)
              /\ heap' = Reclaim(heap, rooms, pc', loop.snapshot)
    /\ UNCHANGED <<now, rooms, sessions, closed, tasks, started, latest, loop, ticks>>

(***************************************************************************)
(* blend:shapes and the confusion heuristic.                               *)
(***************************************************************************)
\* A frame: whether it is a dict, and its items in order.  A value is a number
\* in hundredths, or something float() raises on.
Item(k, numeric, v) == [k |-> k, numeric |-> numeric, v |-> v]
BrowKeys == {"browInnerUp", "BROWDOWNLEFT"}      \* the keys k with "brow" in k.lower()
Frames ==
    {[is_dict |-> TRUE, items |-> <<Item("browInnerUp", TRUE, 50)>>],
     [is_dict |-> TRUE, items |-> <<Item("browInnerUp", TRUE, 30)>>],
     [is_dict |-> TRUE, items |-> <<Item("jawOpen", TRUE, 90)>>],
     [is_dict |-> TRUE, items |-> <<Item("browInnerUp", FALSE, 0), Item("BROWDOWNLEFT", TRUE, 45)>>],
     [is_dict |-> TRUE, items |-> <<Item("browInnerUp", TRUE, 50), Item("BROWDOWNLEFT", TRUE, 90)>>],
     [is_dict |-> TRUE, items |-> <<Item("browInnerUp", TRUE, 44), Item("jawOpen", FALSE, 0)>>],
     [is_dict |-> FALSE, items |-> <<>>]}

\* The scan of handle_blend_shapes: detected after the items from i on.
RECURSIVE ScanFrom(_, _)
ScanFrom(items, i) ==
    IF i > Len(items) THEN FALSE
    ELSE IF items[i].k \in BrowKeys /\ items[i].numeric /\ items[i].v >= furrow_threshold
         THEN TRUE
         ELSE ScanFrom(items, i + 1)

Detected(data) == data.is_dict /\ ScanFrom(data.items, 1)

\* handle_blend_shapes up to its first await, the relay of the frame to the
\* room; the emit is outside the try.
handle_blend_shapes(sid, data, ok) ==
    /\ Ready(sid)
    /\ IF sessions[sid] = NoSession
       THEN /\ sent' = {}
            /\ UNCHANGED pc
       ELSE LET room_code == sessions[sid].room_code
                k == [Handler("blend", sid, "blend:shapes_update",
                              get_room(rooms, room_code), room_code) EXCEPT !.data = data]
            IN /\ Present(sid) =>
                     Get(heap[RoomOf(sid)], sid).confusion_events < MaxConfusion
               /\ ok => Free
               /\ pc' = IF ok THEN Suspend(k) ELSE pc
               /\ sent' = Emit("blend:shapes_update", room_code, ok)
    /\ UNCHANGED <<now, rooms, heap, sessions, closed, tasks, started, latest, loop, ticks>>

\* handle_blend_shapes from one await to the next: after the relay the scan,
\* record_confusion and the user:confused emit; after that the room:state emit.
\* What an emit raises here is caught by the except clause that ends the handler.
BlendResume(k, ok) ==
    /\ BagIn(k, pc)
    /\ k.op = "blend"
    /\ IF k.at = "blend:shapes_update"
       THEN IF Detected(k.data) /\ k.rid # 0 /\ k.sid \in Keys(heap[k.rid])
            THEN /\ sent' = Emit("user:confused", k.code, ok)
                 /\ pc' = Emitted(k, "user:confused", ok)
                 /\ heap' = Reclaim([heap EXCEPT ![k.rid] =
                                        SetParticipant(@, k.sid, record_confusion(Get(@, k.sid)))],
                                    rooms, pc', loop.snapshot)
            ELSE /\ sent' = {}
                 /\ pc' = Finish(k)
                 /\ heap' = Reclaim(heap, rooms, pc', loop.snapshot)
       ELSE /\ sent' = Emit("room:state", k.code, ok)
            /\ pc' = Finish(k)
            /\ heap' = Reclaim(heap, rooms, pc', loop.snapshot)
    /\ UNCHANGED <<now, rooms, sessions, closed, tasks, started, latest, loop, ticks>>

(***************************************************************************)
(* metrics_broadcast_loop.                                                 *)
(***************************************************************************)
\* Where the processing of one room raises, if it does: in the tick, in the
\* formatting of the console output, or in one of the three emits.
LoopFailures == {"none", "tick", "format", "room:state", "group:dps_updated",
                 "group:score_updated"}

\* How the loop's step into a room can end: at the await of its room:state
\* emit, or raising before it.
EntryOutcomes == {"none", "tick", "format", "room:state"}

\* What is raised in one room ending the for loop over the snapshot.
RestAfter_propagates(fail, rest) == IF fail = "none" THEN rest ELSE <<>>

\* The rooms of the snapshot the loop goes on with after one room: the except
\* clause inside the for loop catches what the room raised.
RestAfter(fail, rest) == rest

\* The loop going into the rooms rs of its snapshot, outs[i] being how the
\* entry into the i-th of them ends: the tick, the formatting and the room:state
\* emit of the first room; if one of them raises, the except clause prints and
\* the for loop goes into the next room in the same step.  The result is the
\* heap, the loop and what was sent.
RECURSIVE Enter(_, _, _)
Enter(h, rs, outs) ==
    IF rs = <<>>
    THEN [heap |-> h, loop |-> Sleeping, sent |-> {}]
    ELSE LET rid == Head(rs)
             fail == Head(outs)
             h1 == IF fail = "tick"
                   THEN h
                   ELSE [h EXCEPT ![rid] =
                            tick_and_distribute_score(@, METRICS_BROADCAST_INTERVAL)]
         IN IF fail = "none"
            THEN [heap |-> h1, loop |-> [snapshot |-> rs, at |-> "room:state"],
                  sent |-> {Ev("room:state", h[rid].code)}]
            ELSE LET r == Enter(h1, RestAfter(fail, Tail(rs)), Tail(outs))
                 IN [r EXCEPT !.sent = @ \cup {Ev("print:error", h[rid].code)}]

\* The loop after an emit of the room in hand raised.
Raised(outs) ==
    LET fail == IF loop.at = "room:state" THEN "group:dps_updated" ELSE "group:score_updated"
        r == Enter(heap, RestAfter(fail, Tail(loop.snapshot)), outs)
    IN [r EXCEPT !.sent = @ \cup {Ev("print:error", heap[Head(loop.snapshot)].code)}]

\* The rooms of the snapshot after the one in hand.
LoopRest == IF loop.snapshot = <<>> THEN <<>> ELSE Tail(loop.snapshot)

\* The ways the entries into the rooms rs can end.
Outcomes(rs) == [1..Len(rs) -> EntryOutcomes]

\* The sleep is over: the snapshot is taken and its rooms gone into.
LoopWake(outs) ==
    /\ loop.at = "sleep"
    /\ ticks < MaxTicks
    /\ ticks' = ticks + 1
    /\ outs \in Outcomes(rooms)
    /\ \E r \in {Enter(heap, [i \in 1..Len(rooms) |-> rooms[i].rid], outs)} :
          /\ loop' = r.loop
          /\ sent' = r.sent
          /\ heap' = Reclaim(r.heap, rooms, pc, r.loop.snapshot)
    /\ UNCHANGED <<now, rooms, sessions, closed, pc, tasks, started, latest>>

\* The loop from one await to the next: after the room:state emit of the room
\* in hand its group:dps_updated emit, after that its group:score_updated emit,
\* after that the next room of the snapshot, or the sleep after the last.
LoopResume(ok, outs) ==
    /\ loop.at # "sleep"
    /\ outs \in Outcomes(LoopRest)
    /\ \E room_code \in {heap[Head(loop.snapshot)].code} :
       \E r \in {CASE loop.at = "group:score_updated" ->
                       Enter(heap, Tail(loop.snapshot), outs)
                  [] ~ok -> Raised(outs)
                  [] loop.at = "room:state" ->
                       [heap |-> heap, loop |-> [loop EXCEPT !.at = "group:dps_updated"],
                        sent |-> {Ev("group:dps_updated", room_code)}]
                  [] OTHER ->
                       [heap |-> heap,
                        loop |-> IF Tail(loop.snapshot) = <<>> THEN Sleeping
                                 ELSE [loop EXCEPT !.at = "group:score_updated"],
                        sent |-> {Ev("group:score_updated", room_code)}]} :
          /\ loop' = r.loop
          /\ sent' = r.sent
          /\ heap' = Reclaim(r.heap, rooms, pc, r.loop.snapshot)
    /\ UNCHANGED <<now, rooms, sessions, closed, pc, tasks, started, latest, ticks>>

(***************************************************************************)
(* The clock.                                                              *)
(***************************************************************************)
\* Time passes in steps of the difference of the two timer durations, so that a
\* break timer started one step after a focus timer ends at the same instant.
ClockSteps == {(FOCUS_DURATION - BREAK_DURATION) * MinuteUnits}

Advance(d, horizon) ==
    /\ now + d <= horizon
    /\ now' = now + d
    /\ sent' = {}
    /\ UNCHANGED <<rooms, heap, sessions, closed, pc, tasks, started, latest, loop, ticks>>

(***************************************************************************)
(* Specifications.  Each is the program with a population of connections   *)
(* and room codes and an alphabet of inbound events; the handlers are the  *)
(* same in all of them.                                                    *)
(***************************************************************************)
Solo == {"s1"}
Pair == {"s1", "s2"}
OneCode == {"R1"}
Delivers == {TRUE}                  \* every emit goes out
MayRaise == BOOLEAN                 \* an emit goes out or raises

\* room:join of the connections S, with room codes from C and usernames from U;
\* O is how an emit can end.
Joins(S, C, U, O) ==
    \/ \E sid \in S, c \in C, u \in U : handle_room_join(sid, c, u)
    \/ \E k \in BagToSet(pc), ok \in O : RoomJoinResume(k, ok)

\* room:leave of the connections S, with room codes from C; M is how the
\* user:metrics emit can end.
Leaves(S, C, O, M) ==
    \/ \E sid \in S, c \in C, m \in M : handle_room_leave(sid, c, m)
    \/ \E k \in BagToSet(pc), ok \in O : LeaveResume(k, ok)

JoinLeave(S, C, U, O, M) == Joins(S, C, U, O) \/ Leaves(S, C, O, M)

\* Joining, leaving and disconnecting, missing fields included.
RoomEvents(S, C, O, M) ==
    \/ JoinLeave(S, C \cup {Empty}, Usernames \cup {Empty}, O, M)
    \/ \E sid \in S, m \in M : disconnect(sid, m)

\* The shared timer and the passing of time: timer events of the connections
\* S with phases from P, up to a number of accepted starts, and the clock up
\* to a horizon in minutes.
TimerEvents(S, P, O, horizon, starts) ==
    \/ \E sid \in S, ph \in P, ok \in O : started < starts /\ handle_timer_start(sid, ph, ok)
    \/ \E k \in BagToSet(pc) : TimerStartResume(k)
    \/ \E task \in tasks, ok \in O : timer_end_callback(task, ok)
    \/ \E sid \in S, ok \in O : handle_timer_stop(sid, ok)
    \/ \E d \in ClockSteps : Advance(d, horizon * MinuteUnits)

\* Three connections and one room code.
NextRooms == RoomEvents(Sids, OneCode, MayRaise, MetricsOutcomes)
SpecRooms == Init /\ [][NextRooms]_vars

\* One connection and two room codes.
NextTwoRooms == RoomEvents(Solo, Codes, MayRaise, MetricsOutcomes)
SpecTwoRooms == Init /\ [][NextTwoRooms]_vars

\* Focus and distraction, with the clock advancing by fractions of a millisecond.
FocusEvents(S, O) ==
    \/ \E sid \in S, ok \in O : handle_user_distracted(sid, ok)
    \/ \E k \in BagToSet(pc), ok \in O : DistractedResume(k, ok)
    \/ \E sid \in S, ok \in O : handle_user_focused(sid, ok)
    \/ \E k \in BagToSet(pc), ok \in O : FocusedResume(k, ok)
    \/ Advance(1, MaxFineClock)

\* One connection, one room code, focus and distraction.
NextFocus ==
    \/ JoinLeave(Solo, OneCode, Usernames, MayRaise, MetricsOutcomes)
    \/ FocusEvents(Solo, MayRaise)
SpecFocus == Init /\ [][NextFocus]_vars

\* The scoring functions on a room of up to MaxHeads participants, all of
\* them focused as they are after their joins.
HeadIds == <<"s1", "s2", "s3", "s4", "s5", "s6", "s7">>
Seconds == {0, 1, METRICS_BROADCAST_INTERVAL}    \* the seconds of the three callers

DrawnRoom(n) ==
    [Room("R1") EXCEPT
        !.participants = [i \in 1..n |-> Participant(HeadIds[i], "u", 0)],
        !.host = IF n = 0 THEN NoSid ELSE HeadIds[1]]

InitScore ==
    /\ now = 0
    /\ rooms = <<[code |-> "R1", rid |-> 1]>>
    /\ \E n \in 0..MaxHeads :
          heap = [r \in RoomIds |-> IF r = 1 THEN DrawnRoom(n) ELSE NoRoom]
    /\ sessions = [s \in Sids |-> NoSession]
    /\ closed = {}
    /\ pc = EmptyBag
    /\ tasks = {}
    /\ started = 0
    /\ latest = [c \in Codes |-> 0]
    /\ loop = Sleeping
    /\ ticks = 0
    /\ sent = {}

\* room.tick_and_distribute_score(seconds) on the room.
Tick(seconds) ==
    /\ Less(heap[1].group_score, Float(MaxPoints))
    /\ heap' = [heap EXCEPT ![1] = tick_and_distribute_score(@, seconds)]
    /\ UNCHANGED <<now, rooms, sessions, closed, pc, tasks, started, latest, loop, ticks, sent>>

\* participant.mark_distracted() on the i-th participant of the room.
BecomeDistracted(i) ==
    /\ i \in DOMAIN heap[1].participants
    /\ heap' = [heap EXCEPT ![1].participants[i] = mark_distracted(@, now)]
    /\ UNCHANGED <<now, rooms, sessions, closed, pc, tasks, started, latest, loop, ticks, sent>>

\* Ticks on the room, and its participants becoming distracted one by one.
NextScore ==
    \/ \E seconds \in Seconds : Tick(seconds)
    \/ \E i \in 1..MaxHeads : BecomeDistracted(i)
SpecScore == InitScore /\ [][NextScore]_vars

\* Two connections joining one room, and the timer started with a focus
\* phase, a break phase or a phase the client made up.
TimerPhases == {"focus", "break", "nap"}
NextTimer ==
    \/ Joins(Pair, OneCode, Usernames, Delivers)
    \/ TimerEvents(Pair, TimerPhases, MayRaise, MaxMinutes, MaxStarts)
SpecTimer == Init /\ [][NextTimer]_vars

\* One connection joining two rooms (a room:join for a second code leaves it
\* in the first room too), and the metrics loop, whose processing of a
\* room may raise.
LoopEvents ==
    \/ \E outs \in Outcomes(rooms) : LoopWake(outs)
    \/ \E ok \in MayRaise, outs \in Outcomes(LoopRest) : LoopResume(ok, outs)
NextLoop == Joins(Solo, Codes, Usernames, Delivers) \/ LoopEvents
SpecLoop == Init /\ [][NextLoop]_vars

\* The event loop resumes the metrics loop after its sleep and after each emit.
SpecLoopFair ==
    /\ SpecLoop
    /\ WF_vars(\E outs \in Outcomes(rooms) : LoopWake(outs))
    /\ WF_vars(\E ok \in MayRaise, outs \in Outcomes(LoopRest) : LoopResume(ok, outs))

\* Expression frames of the connections S.
BlendEvents(S, O) ==
    \/ \E sid \in S, data \in Frames, ok \in O : handle_blend_shapes(sid, data, ok)
    \/ \E k \in BagToSet(pc), ok \in O : BlendResume(k, ok)

\* Two connections joining one room and the first of them leaving it; the
\* first sends expression frames.
NextBlend ==
    \/ Joins(Pair, OneCode, Usernames, Delivers)
    \/ Leaves(Solo, OneCode, Delivers, {"delivered"})
    \/ BlendEvents(Solo, MayRaise)
SpecBlend == Init /\ [][NextBlend]_vars

\* Two connections joining one room and the first of them leaving it; the
\* first sends the timer events, with the break phase (the shorter duration, so
\* that the completion of a start falls within the time the clock covers).
\* Every emit returns or raises: the timer:started emit raising ends
\* handle_timer_start before create_task, the timer:ended emit raising ends
\* timer_end_callback after the timer was set Idle.  The event loop runs the
\* rest of a suspended handle_timer_start and the completions whose sleep is
\* over, and time passes.
NextTimerEnd ==
    \/ Joins(Pair, OneCode, Usernames, MayRaise)
    \/ Leaves(Solo, OneCode, MayRaise, MetricsOutcomes)
    \/ TimerEvents(Solo, {"break"}, MayRaise, FairMinutes, FairStarts)
SpecTimerFair ==
    /\ Init /\ [][NextTimerEnd]_vars
    /\ WF_vars(\E k \in BagToSet(pc) : TimerStartResume(k))
    /\ WF_vars(\E task \in tasks, ok \in MayRaise : timer_end_callback(task, ok))
    /\ WF_vars(\E d \in ClockSteps : Advance(d, FairMinutes * MinuteUnits))

(***************************************************************************)
(* Properties.                                                             *)
(***************************************************************************)
LiveRooms == {rid \in RoomIds : heap[rid] # NoRoom}
Registered(code) == HasRoom(rooms, code)
RoomAt(code) == heap[get_room(rooms, code)]
InFlight == BagToSet(pc)
NoneInFlight(sid) == \A k \in InFlight : k.sid # sid

\* C1: the registry holds an entry for a room code if and only if that room
\* has at least one participant; no room is ever in the registry with an empty
\* participant set.
C1_RegistryIffOccupied ==
    \A code \in Codes :
        Registered(code) <=>
            \E rid \in LiveRooms : heap[rid].code = code /\ ~is_empty(heap[rid])

\* C2: in every room the host is unset exactly when the room has no
\* participants, and otherwise is the connection id of one of its participants
\* (so removing the host leaves one of the remaining participants as host, and
\* removing the last participant leaves the host unset).
C2_HostIsParticipantOrNone ==
    \A rid \in LiveRooms :
        /\ (heap[rid].host = NoSid) <=> is_empty(heap[rid])
        /\ heap[rid].host # NoSid => heap[rid].host \in Keys(heap[rid])

\* A leave is in flight that took the host out of a three-participant room:
\* two remain and one of them is host.
C2_Witness ==
    \E k \in InFlight :
        /\ k.op = "leave"
        /\ k.sid = "s1"
        /\ Len(heap[k.rid].participants) = 2
        /\ heap[k.rid].host \in Keys(heap[k.rid])
        /\ k.sid \notin Keys(heap[k.rid])

\* C10: a connection has a session entry exactly while it is joined to a room;
\* stated for the connections with no handler in flight.
C10_SessionIffJoined ==
    \A sid \in Sids :
        NoneInFlight(sid) =>
            (sessions[sid] # NoSession <=>
                \E code \in Codes : Registered(code) /\ sid \in Keys(RoomAt(code)))

\* The timer of the room registered under a code; None when it is Idle or no
\* room is registered.
TimerOf(code) == IF Registered(code) THEN RoomAt(code).timer_end_time ELSE None

Fires(task) == task \in tasks /\ task \notin tasks'

\* C3: the deferred completion of every timer:start other than the most recent
\* one of its room is discarded when it fires: no timer:ended is emitted and
\* the rooms are left as they were.
C3_OlderCompletionDiscarded ==
    [][\A task \in tasks :
          (Fires(task) /\ task.id # latest[task.room_code]) =>
              (Ev("timer:ended", task.room_code) \notin sent' /\ heap' = heap)]_vars

\* C4: once the host has stopped the timer, and as long as no timer:start is
\* accepted in that room, no timer:ended is emitted for the room and its timer
\* stays Idle, whatever deferred completions fire: (a) a timer:stop of the host
\* leaves the timer Idle; (b) from Idle, a step that is not an accepted
\* timer:start leaves the timer Idle and emits no timer:ended.
C4_StoppedTimerNeverEnds ==
    [][/\ \A sid \in Sids : \A ok \in BOOLEAN :
             (handle_timer_stop(sid, ok) /\ IsHost(sid)) =>
                 TimerOf(sessions[sid].room_code)' = None
       /\ \A code \in Codes :
             (TimerOf(code) = None /\ started' = started) =>
                 (TimerOf(code)' = None /\ Ev("timer:ended", code) \notin sent')]_vars

\* The host has just stopped the timer while the completion of the most recent
\* start is still pending, and its sleep is over.
C4_Witness ==
    \E task \in tasks :
        /\ sent = {Ev("timer:stopped", task.room_code)}
        /\ task.id = latest[task.room_code]
        /\ now >= task.due
        /\ TimerOf(task.room_code) = None

\* C5: a timer:start or timer:stop from a connection that is not the host of
\* its room changes no room (timer end timestamp and phase included), emits
\* nothing and schedules no deferred completion.
C5_NonHostTimerControlIgnored ==
    [][\A sid \in Sids : \A ok \in BOOLEAN :
          (Resolves(sid) /\ heap[RoomOf(sid)].host # sid) =>
              /\ \A ph \in PhaseInputs :
                    handle_timer_start(sid, ph, ok) =>
                        (heap' = heap /\ sent' = {} /\ pc' = pc /\ tasks' = tasks)
              /\ handle_timer_stop(sid, ok) =>
                    (heap' = heap /\ sent' = {} /\ pc' = pc /\ tasks' = tasks)]_vars

\* A connection that is not the host of its room can send a timer event while
\* the timer of the room runs.
C5_Witness ==
    \E sid \in Sids :
        /\ Ready(sid)
        /\ Resolves(sid)
        /\ heap[RoomOf(sid)].host # sid
        /\ heap[RoomOf(sid)].timer_end_time # None

\* The interval accounting of a participant.
Accounting(p) == <<p.total_focused_ms, p.total_distracted_ms, p.focused_since,
                   p.distracted_since, p.is_distracted>>

Me(sid) == Get(heap[RoomOf(sid)], sid)

\* C6: mark_distracted on a participant that is already distracted, and
\* mark_focused on one that is already focused, whatever time has passed since
\* the first call, leave the accumulated focused and distracted ms, the start of
\* the open interval and the focus state as the first call left them.
C6_RepeatedMarkIdempotent ==
    [][\A sid \in Sids : \A ok \in BOOLEAN :
          Present(sid) =>
              /\ (handle_user_distracted(sid, ok) /\ Me(sid).is_distracted) =>
                    Accounting(Me(sid))' = Accounting(Me(sid))
              /\ (handle_user_focused(sid, ok) /\ ~Me(sid).is_distracted) =>
                    Accounting(Me(sid))' = Accounting(Me(sid))]_vars

\* A user:distracted has just been handled for a participant whose distracted
\* interval was opened at an earlier time: it is the second one.
C6_Witness ==
    \E sid \in Sids :
        /\ Present(sid)
        /\ sent = {Ev("user:status_changed", sessions[sid].room_code)}
        /\ Me(sid).is_distracted
        /\ Me(sid).distracted_since < now
        /\ Me(sid).total_focused_ms > 0

Focused(room) == focused_participants(room)
Scores(room) == [i \in DOMAIN room.participants |-> room.participants[i].score]

\* C7: tick_and_distribute_score, for any seconds, on a room with no focused
\* participant leaves the group score and every participant's score unchanged.
C7_NoFocusedNoScore ==
    [][\A seconds \in Seconds :
          (Focused(heap[1]) = {} /\ Tick(seconds)) =>
              (heap'[1].group_score = heap[1].group_score /\ Scores(heap'[1]) = Scores(heap[1]))]_vars

\* A room that has earned points in a tick, whose participants are all
\* distracted now, and on which ticks are taken.
C7_Witness ==
    /\ Less(Zero, heap[1].group_score)
    /\ Less(heap[1].group_score, Float(MaxPoints))
    /\ Len(heap[1].participants) >= 2
    /\ Focused(heap[1]) = {}

\* The exact sum of the first n of the dyadic rationals f.
RECURSIVE SumTo(_, _)
SumTo(f, n) == IF n = 0 THEN Zero ELSE Sum(f[n], SumTo(f, n - 1))

\* What a step adds to the scores of the participants of the room, one by one
\* and in all, and to its group score, as exact differences.
Gains ==
    CHOOSE g \in {[i \in DOMAIN heap[1].participants |->
                     Difference(heap'[1].participants[i].score, heap[1].participants[i].score)]} :
        TRUE
GainsSum == SumTo(Gains, Len(heap[1].participants))
GroupGain == Difference(heap'[1].group_score, heap[1].group_score)

\* The unit roundoff of a double: the result of an operation is off its exact
\* value by no more than UnitRoundoff times the result.
UnitRoundoff == Num(FALSE, <<1>>, -Precision)

\* C8 as stated: tick_and_distribute_score(seconds) on a room with a focused
\* participant adds points = groupDPS * seconds to the group score, exactly
\* points / focusedCount to the score of every focused participant and nothing
\* to that of a distracted one; the increase of the group score is the sum of
\* the participants' increases.
C8_PointsSplitAmongFocused ==
    [][\A seconds \in Seconds :
          (Focused(heap[1]) # {} /\ Tick(seconds)) =>
              \E points \in {Product(compute_group_dps(heap[1]), Float(seconds))},
                 k \in {Cardinality(Focused(heap[1]))},
                 gain \in {Gains} :
                 /\ GroupGain = points
                 /\ \A i \in DOMAIN gain :
                       IF i \in Focused(heap[1])
                       THEN Product(gain[i], Float(k)) = points
                       ELSE gain[i] = Zero
                 /\ SumTo(gain, Len(gain)) = points]_vars

\* The sum of the new group score, of the new scores of the focused
\* participants of the room and of as many times share.
Rounded8(share) ==
    Sum(heap'[1].group_score,
        SumTo([i \in DOMAIN heap[1].participants |->
                  IF i \in Focused(heap[1])
                  THEN Sum(heap'[1].participants[i].score, share)
                  ELSE Zero],
              Len(heap[1].participants)))

\* C8, amended: tick_and_distribute_score(seconds) on a room with a focused
\* participant adds points = groupDPS * seconds to the group score and
\* share = points / focusedCount to the score of every focused participant,
\* each product, quotient and sum rounded to the nearest double, and leaves the
\* score of a distracted participant unchanged; the increase of the group score
\* and the sum of the participants' increases differ by no more than the
\* roundings: by at most 2^-53 times the sum of the new group score, the new
\* scores of the focused participants and focusedCount shares.
C8_PointsSplitUpToRounding ==
    [][\A seconds \in Seconds :
          (Focused(heap[1]) # {} /\ Tick(seconds)) =>
              \E points \in {Times(compute_group_dps(heap[1]), Float(seconds))} :
              \E share \in {Over(points, Cardinality(Focused(heap[1])))} :
                 /\ heap'[1].group_score = Plus(heap[1].group_score, points)
                 /\ \A i \in DOMAIN heap[1].participants :
                       heap'[1].participants[i].score =
                           IF i \in Focused(heap[1])
                           THEN Plus(heap[1].participants[i].score, share)
                           ELSE heap[1].participants[i].score
                 /\ AtMost(Abs(Difference(GainsSum, GroupGain)),
                           Product(UnitRoundoff, Rounded8(share)))]_vars

\* A tick has distributed points among three focused participants, a share
\* that is no double, in a room with a distracted participant too.
C8_Witness ==
    /\ Less(Zero, heap[1].group_score)
    /\ Cardinality(Focused(heap[1])) = 3
    /\ \A i \in Focused(heap[1]) : Less(Zero, heap[1].participants[i].score)
    /\ Cardinality(Focused(heap[1])) < Len(heap[1].participants)

\* The room with participant i distracted.
Distract(room, i) == [room EXCEPT !.participants[i] = mark_distracted(@, now)]

\* 5% of the base rate: the double 0.05.
Floor == Over(base_dps, 20)

\* What C9 says of every room but the value at the cap: the group DPS is at
\* least 5% of the base rate and at most the base rate, and does not increase
\* when one more participant becomes distracted.
DpsBounds(room) ==
    /\ AtMost(Floor, compute_group_dps(room))
    /\ AtMost(compute_group_dps(room), base_dps)
    /\ \A i \in Focused(room) :
          AtMost(compute_group_dps(Distract(room, i)), compute_group_dps(room))

\* C9 as stated: for every number of participants and of distracted
\* participants the group DPS is at least 5% of the base rate and at most the
\* base rate, it does not increase when one more participant becomes
\* distracted, and with four or more distracted participants it is exactly 0.05
\* (base rate 1.0, penalty 0.25).
C9_GroupDpsBounds ==
    \A rid \in LiveRooms :
        /\ DpsBounds(heap[rid])
        /\ current_num_distracted(heap[rid]) >= 4 => compute_group_dps(heap[rid]) = Floor

\* C9, amended: the bounds and the monotonicity as stated; with four or more
\* distracted participants the group DPS is the double 1.0 - 0.95
\* (0.050000000000000044), which is above the double 0.05 by less than 2^-53,
\* and is not the double 0.05.
C9_GroupDpsBoundsUpToRounding ==
    \A rid \in LiveRooms :
        /\ DpsBounds(heap[rid])
        /\ current_num_distracted(heap[rid]) >= 4 =>
              /\ compute_group_dps(heap[rid]) = Minus(One, PenaltyCap)
              /\ Less(Floor, compute_group_dps(heap[rid]))
              /\ Less(Difference(compute_group_dps(heap[rid]), Floor), UnitRoundoff)

\* A tick of one second has paid the group DPS of a room with four distracted
\* participants and a focused one.
C9_Witness ==
    /\ current_num_distracted(heap[1]) = 4
    /\ Focused(heap[1]) # {}
    /\ heap[1].group_score = compute_group_dps(heap[1])

\* The counters of a participant that may only grow, and its confused flag.
NotBelow(q, p) ==
    /\ AtMost(p.score, q.score)
    /\ q.total_focused_ms >= p.total_focused_ms
    /\ q.total_distracted_ms >= p.total_distracted_ms
    /\ q.confusion_events >= p.confusion_events
    /\ p.is_confused => q.is_confused

\* C11: across every step in which a connection is a participant of a room
\* before and after it (further room:join events of that connection for the
\* same room included), its score, accumulated focused ms, accumulated
\* distracted ms and confusion count do not decrease and its confused flag does
\* not return to false.
C11_CountersNeverDecrease ==
    [][\A rid \in RoomIds : \A sid \in Sids :
          (sid \in Keys(heap[rid]) /\ sid \in Keys(heap'[rid])) =>
              NotBelow(Get(heap'[rid], sid), Get(heap[rid], sid))]_vars

\* The rooms whose processing raised in the last step (the loop printed the error).
FailedRooms == {rid \in RoomIds : heap[rid] # NoRoom /\ Ev("print:error", heap[rid].code) \in sent}
Failed == FailedRooms # {}

\* The loop has gone into room rid in this step: its tick ran and its
\* room:state went out, and it is the room in hand.
Entered(rid) ==
    /\ loop'.snapshot # <<>>
    /\ Head(loop'.snapshot) = rid
    /\ loop'.at = "room:state"
    /\ Ev("room:state", heap[rid].code) \in sent'
    /\ heap'[rid] = tick_and_distribute_score(heap[rid], METRICS_BROADCAST_INTERVAL)

\* C12: a failure while the metrics loop processes one room (in its tick, its
\* formatting or one of its emits) leaves the other rooms of the snapshot to be
\* processed: the step in which a room raises goes into the next room of the
\* snapshot, with the whole rest of the snapshot still to come; every tick
\* begun comes to its end; and after a failure the loop begins its next tick.
C12_LoopSurvivesRoomFailure ==
    /\ [][/\ \A outs \in Outcomes(LoopRest) :
                (LoopResume(FALSE, outs) /\ loop.at # "group:score_updated"
                    /\ LoopRest # <<>> /\ outs[1] = "none") =>
                    (Entered(Head(LoopRest)) /\ loop'.snapshot = LoopRest)
          /\ \A outs \in Outcomes(rooms) :
                (LoopWake(outs) /\ Len(rooms) >= 2 /\ outs[1] # "none" /\ outs[2] = "none") =>
                    (Entered(rooms[2].rid) /\ Len(loop'.snapshot) = Len(rooms) - 1)]_vars
    /\ (loop.at # "sleep") ~> (loop.at = "sleep")
    /\ \A n \in 1..(MaxTicks - 1) : (Failed /\ ticks = n) ~> (ticks = n + 1)

\* The first room of a snapshot of two has just raised in an emit, after its
\* tick, and the step has gone into the second room.
C12_Witness ==
    /\ Len(rooms) = 2
    /\ FailedRooms = {rooms[1].rid}
    /\ loop = [snapshot |-> <<rooms[2].rid>>, at |-> "room:state"]
    /\ ticks = 1
    /\ Ev("room:state", heap[rooms[2].rid].code) \in sent
    /\ Less(Zero, heap[rooms[1].rid].group_score)
    /\ Less(Zero, heap[rooms[2].rid].group_score)

\* The frame carries a brow signal with a numeric value of at least 0.45.
HasFurrow(data) ==
    /\ data.is_dict
    /\ \E i \in DOMAIN data.items :
          data.items[i].k \in BrowKeys /\ data.items[i].numeric
              /\ data.items[i].v >= furrow_threshold

InRegistry(rid) == \E i \in DOMAIN rooms : rooms[i].rid = rid

\* C13: for every frame from a participant, at the end of its handling: when
\* a brow signal has a numeric value >= 0.45 (non-numeric values do not end the
\* scan) the participant has become confused and its confusion count has grown
\* by exactly 1, and otherwise the participant is unchanged.  The handling of
\* a frame ends in the handler's first step when the relay emit raises, and
\* otherwise goes on through the step after the relay (the scan and
\* record_confusion) and the step after the user:confused emit; each step
\* that does not end the handling with the frame unscanned leaves the
\* participant as the frame's outcome so far requires, so that a frame counts
\* once.
C13_FrameRecordsConfusionOnce ==
    [][/\ \A sid \in Sids : \A data \in Frames : \A ok \in BOOLEAN :
             (Present(sid) /\ handle_blend_shapes(sid, data, ok)) =>
                LET p == Get(heap[RoomOf(sid)], sid)
                    q == Get(heap'[RoomOf(sid)], sid)
                IN IF ~ok /\ HasFurrow(data)
                   THEN /\ q.is_confused
                        /\ q.confusion_events = p.confusion_events + 1
                   ELSE q = p
       /\ \A k \in InFlight : \A ok \in BOOLEAN :
             (BlendResume(k, ok) /\ InRegistry(k.rid) /\ k.sid \in Keys(heap[k.rid])) =>
                LET p == Get(heap[k.rid], k.sid)
                    q == Get(heap'[k.rid], k.sid)
                IN IF k.at = "blend:shapes_update" /\ HasFurrow(k.data)
                   THEN /\ q.is_confused
                        /\ q.confusion_events = p.confusion_events + 1
                        /\ q = [p EXCEPT !.is_confused = TRUE,
                                         !.confusion_events = p.confusion_events + 1]
                   ELSE q = p]_vars

\* The time a participant's accounting covers, in clock units: the two
\* accumulators and the interval open at time t.
Covered(p, t) ==
    TimeRes * (p.total_focused_ms + p.total_distracted_ms)
        + (IF p.focused_since # None THEN t - p.focused_since ELSE 0)
        + (IF p.distracted_since # None THEN t - p.distracted_since ELSE 0)

\* C14: between its join and its departure a participant's accumulated focused
\* ms + accumulated distracted ms + time since its last transition equals the
\* time since it joined: it is 0 at the join, and every step that is not a join
\* of that connection and keeps it in its room adds to it exactly the time that
\* passed; the session duration of the departure snapshot taken at any instant
\* is that same time, in whole ms.
C14_AccountingCoversSession ==
    [][\A sid \in Sids :
          (Present(sid) /\ Present(sid)'
             /\ ~(\E c \in Codes, u \in Usernames : handle_room_join(sid, c, u))) =>
              /\ Covered(Me(sid), now)' - Covered(Me(sid), now) = now' - now
              /\ session_ms(Me(sid), now) = IntMs(Covered(Me(sid), now))]_vars

\* Exactly the interval matching the focus state is open.
OneIntervalOpen(p) ==
    /\ (p.focused_since # None) <=> ~p.is_distracted
    /\ (p.distracted_since # None) <=> p.is_distracted

\* C15: every participant of every room has exactly one of focused_since and
\* distracted_since set, the one matching its focus state; and a room:join that
\* is accepted leaves the joining connection a focused participant whose
\* focused interval opens at the time of the join.
C15_OneIntervalMatchesState ==
    /\ [](\A rid \in LiveRooms : \A i \in DOMAIN heap[rid].participants :
             OneIntervalOpen(heap[rid].participants[i]))
    /\ [][\A sid \in Sids : \A c \in Codes : \A u \in Usernames :
             handle_room_join(sid, c, u) =>
                 LET p == Get(heap'[get_room(rooms', c)], sid)
                 IN ~p.is_distracted /\ p.focused_since = now /\ p.distracted_since = None]_vars

\* A participant is focused again after a distraction that lasted a millisecond
\* or more.
C15_Witness ==
    \E sid \in Sids :
        /\ Present(sid)
        /\ ~Me(sid).is_distracted
        /\ Me(sid).total_distracted_ms > 0
        /\ Me(sid).focused_since > 0

\* The group score and the participants' scores of every Room object.
AllScores == [rid \in RoomIds |-> <<heap[rid].group_score, Scores(heap[rid])>>]

\* C16: handling user:distracted or user:focused, in every step of the
\* handler, leaves the group score of the room and the score of every
\* participant unchanged, whatever the states of the participants.
C16_ToggleLeavesScores ==
    [][/\ \A sid \in Sids : \A ok \in BOOLEAN :
             (handle_user_distracted(sid, ok) \/ handle_user_focused(sid, ok)) =>
                 AllScores' = AllScores
       /\ \A k \in InFlight : \A ok \in BOOLEAN :
             (DistractedResume(k, ok) \/ FocusedResume(k, ok)) =>
                 \A rid \in RoomIds : heap'[rid] # NoRoom =>
                     AllScores'[rid] = AllScores[rid]]_vars

\* C17: the timer phase of every room is "focus" or "break", whatever phase
\* the host's timer:start events carried.
C17_PhaseIsFocusOrBreak ==
    \A rid \in LiveRooms : heap[rid].timer_phase \in {"focus", "break"}

\* The timer of the room under code runs on the stamp of start n, the
\* timer:start handler of start n has ended (by create_task, or by its
\* timer:started emit raising), and no completion of start n is due later than
\* the time the model's clock covers.
RunningOn(code, n) ==
    /\ Registered(code)
    /\ latest[code] = n
    /\ TimerOf(code) # None
    /\ \A k \in InFlight : ~(k.op = "timer_start" /\ k.id = n)
    /\ \A task \in tasks : task.id = n => task.due <= FairMinutes * MinuteUnits

\* C18: a timer started by the host, with no timer:stop and no newer
\* timer:start after it and its room staying in the registry, eventually
\* returns to Idle: the running timer of start n, once its timer:start handler
\* has ended, leads to the timer being Idle, or to a newer start, or to the
\* room leaving the registry.  timer:ended is emitted once for it: only by a
\* step that takes the timer from running to Idle, and by every such step
\* that is not a timer:stop.  Who is host when the completion fires does not
\* matter.
C18_StartedTimerEventuallyEnds ==
    /\ \A code \in Codes : \A n \in 1..FairStarts :
          RunningOn(code, n) ~>
              (~Registered(code) \/ latest[code] # n \/ TimerOf(code) = None)
    /\ [][\A code \in Codes :
             /\ Ev("timer:ended", code) \in sent' =>
                   (TimerOf(code) # None /\ TimerOf(code)' = None)
             /\ (Registered(code) /\ Registered(code)'
                   /\ RoomAt(code)' = [RoomAt(code) EXCEPT !.timer_end_time = None]
                   /\ TimerOf(code) # None
                   /\ ~(\E sid \in Sids, ok \in BOOLEAN : handle_timer_stop(sid, ok))) =>
                   Ev("timer:ended", code) \in sent']_vars

\* C19: a timer:start, timer:stop, user:distracted, user:focused or
\* blend:shapes event from a connection that has no session, or whose session
\* names a room code that is not in the registry, changes no room, no
\* participant, no session and the registry not at all, and emits nothing.
C19_StaleEventIsSilent ==
    [][\A sid \in Sids : \A ok \in BOOLEAN :
          (~Resolves(sid)
             /\ (\/ \E ph \in PhaseInputs : handle_timer_start(sid, ph, ok)
                 \/ handle_timer_stop(sid, ok)
                 \/ handle_user_distracted(sid, ok)
                 \/ handle_user_focused(sid, ok)
                 \/ \E data \in Frames : handle_blend_shapes(sid, data, ok))) =>
              (heap' = heap /\ rooms' = rooms /\ sessions' = sessions /\ sent' = {})]_vars

\* C20: no step removes from the registry a room that has a participant: in
\* particular a leave handler resuming after its emits leaves in the registry
\* the room that is under its code by then, if that room holds a participant.
C20_OccupiedRoomStaysRegistered ==
    [][\A code \in Codes :
          (Registered(code) /\ ~is_empty(RoomAt(code))) =>
              (Registered(code)' /\ get_room(rooms', code) = get_room(rooms, code))]_vars

\* The room codes under which the registry holds a room with sid in it.
RoomsOf(sid) == {code \in Codes : Registered(code) /\ sid \in Keys(RoomAt(code))}

\* C21: every connection is a participant of at most one registered room, and
\* that room is the one its session names; a connection the transport has
\* reported closed, once its leave handler is through, is in no room.
C21_OneRoomPerConnection ==
    \A sid \in Sids :
        /\ Cardinality(RoomsOf(sid)) <= 1
        /\ \A code \in RoomsOf(sid) : sessions[sid].room_code = code
        /\ (sid \in closed /\ NoneInFlight(sid)) => RoomsOf(sid) = {}

====
